---- MODULE Spec2Model ----
(***************************************************************************)
(* Model of the audio file streamer: prealloc_ringbuffer<file_block>       *)
(* (prealloc_ringbuffer.tpp), sndfile_thread (sndfile_thread.cpp) and the   *)
(* JACK process callback that consumes its blocks (jack_client.cpp).       *)
(*                                                                         *)
(* Three threads share one sndfile_thread object:                          *)
(*   "producer"  sndfile_thread::run (check_files, read_buffers, read_block)*)
(*   "consumer"  jack::process (next_block, client process, demotion)      *)
(*   "control"   the main thread (append_file, stop_files)                 *)
(* Only the playlist is protected by _playlist_mutex; _start, _size,       *)
(* _playing_file and the block tags are plain fields, so every load and    *)
(* store of them is a step of its own where another thread writes them.    *)
(* A size_t that wraps below zero is kept as a negative integer v, which   *)
(* stands for 2^64 + v.                                                    *)
(***************************************************************************)
EXTENDS Integers, Sequences, FiniteSets, TLC

\* ---------------------------------------------------------------- bounds
Capacity   == 2   \* slots of the streamer's ring buffer (buffer_size)
MaxAppends == 2   \* append_file calls of the control thread
MaxStops   == 1   \* stop_files calls of the control thread (interleaved runs)
AloneStops == 2   \* stop_files calls (calls run without interference)
FullReads  == 1   \* reads of a whole cache an audio file gives before a short one
MaxScan    == 3   \* scan steps of next_block followed when _size has wrapped
MaxWrap    == 2   \* how far below zero a wrapped _size is followed
RBCapacity == 3   \* slots of the stand-alone ring buffer
MaxPushes  == 7   \* push_back calls on the stand-alone ring buffer
MaxPops    == 4   \* pop_front calls on the stand-alone ring buffer
MaxBlockSize == 10  \* samples of a block (block_size)
MaxRate      == 3   \* sample rates, as small integers in the ratio of the real ones
MaxChannels  == 2   \* channels of an audio file
MaxSpawns    == 2   \* spawn calls of the control thread
MaxInits     == 1   \* init calls of the control thread
LifeAppends  == 1   \* append_file calls where init and spawn are called too
MaxAllocs    == 2   \* allocate calls on the stand-alone ring buffer
TeardownSpawns  == 1  \* spawn calls where the object is destroyed too
TeardownAppends == 2  \* append_file calls where the object is destroyed too

\* ----------------------------------------------------------------- state
VARIABLES
  data,            \* _buffer._data: the slots, each [status, src]; slot k is data[k+1]
  start,           \* _buffer._start
  end,             \* _buffer._end
  size,            \* _buffer._size
  playlist,        \* _playlist: entries [path, ticket]
  playlist_mutex,  \* the threads that hold _playlist_mutex
  playing_file,    \* _playing_file
  file_handler,    \* _file_handler: 0 is nullptr, else the ticket of the open file
  file_left,       \* whole-cache reads the open file still gives
  pc,              \* each thread's position
  pop_start,       \* pop_front: the _start a thread loaded
  pop_size,        \* pop_front: the _size a thread loaded
  p_file,          \* check_files: the entry taken from the playlist
  p_sz,            \* read_buffers: the _size loaded by full()
  p_block,         \* read_block: the slot its argument refers to
  c_i,             \* next_block: the loop index i
  c_block,         \* process: file_block_ptr (a slot number, or NoBlock)
  c_ret,           \* process: the value the last callback returned
  k_arg,           \* append_file: its argument
  k_op,            \* the control thread's current or last call
  k_prev,          \* the control thread's call before k_op
  k_ret,           \* the value the last control call returned
  appends_left,    \* append_file calls still to come
  stops_left,      \* stop_files calls still to come
  tickets,         \* files accepted by append_file so far
  sched,           \* "any": threads interleave; "alone": calls run without interference
  ndebug,          \* the build defines NDEBUG: assert() checks nothing
  running,         \* _running
  thread_joinable, \* _thread.joinable()
  ringbuffer_size, \* _ringbuffer_size
  spawns_left,     \* spawn calls still to come
  inits_left,      \* init calls still to come
  k_bs,            \* init: its argument block_size
  k_sr,            \* init: its argument sampling_rate
  block_size,      \* _block_size
  sampling_rate,   \* _sampling_rate
  file_rate,       \* _current_file_sample_rate
  file_channels,   \* _current_file_channels
  cache_size,      \* _cache_size
  file_cache,      \* _file_cache: interleaved samples
  r_pc,            \* resampling: the position in check_files / read_block
  r_cnt,           \* read_block: cnt, the frames sf_readf_float returned
  r_block,         \* read_block: the samples of the block being filled
  r_it,            \* read_block: it - block.begin()
  r_fidx,          \* read_block: the float fidx, in units of 1/F32One
  \* history
  open_files,      \* tickets of the files opened and not closed
  tag_log,         \* the last store to a block tag: [by, from, to]
  fill_log,        \* the tag of the slot read_block last started to fill
  open_log,        \* tickets in the order check_files tried to open them
  pl_users,        \* threads that have accessed the playlist
  pl_unlocked,     \* a playlist access was made without holding the mutex
  stop_mark,       \* the tickets issued when stop_files last returned (-1: never)
  c_mark,          \* stop_mark when the running next_block call began
  c_src,           \* the file whose samples the claimed block held when claimed
  pushes,          \* stand-alone ring buffer: push_back calls made
  pops,            \* stand-alone ring buffer: pop_front calls made
  allocs           \* stand-alone ring buffer: the sizes passed to allocate

vars == << data, start, end, size, playlist, playlist_mutex, playing_file,
           file_handler, file_left, pc, pop_start, pop_size, p_file, p_sz, p_block,
           c_i, c_block, c_ret, k_arg, k_op, k_prev, k_ret, appends_left, stops_left,
           tickets, sched, ndebug, open_files, tag_log, fill_log, open_log, pl_users,
           pl_unlocked, stop_mark, c_mark, c_src, pushes, pops, block_size,
           sampling_rate, file_rate, file_channels, cache_size, file_cache,
           r_pc, r_cnt, r_block, r_it, r_fidx, running, thread_joinable,
           ringbuffer_size, spawns_left, inits_left, k_bs, k_sr, allocs >>

ringVars == << data, start, end, size >>
fileVars == << playing_file, file_handler, file_left, open_files >>
prodVars == << p_file, p_sz, p_block >>
consVars == << c_i, c_block, c_ret, c_mark, c_src >>
ctlVars  == << k_arg, k_op, k_prev, k_ret, appends_left, stops_left, tickets,
               stop_mark >>
plVars   == << playlist, pl_users, pl_unlocked >>
logVars  == << tag_log, fill_log >>
rbVars   == << pushes, pops, allocs >>
cfgVars  == << block_size, sampling_rate >>
lifeVars == << running, thread_joinable, ringbuffer_size, spawns_left,
               inits_left, k_bs, k_sr >>
resVars  == << file_rate, file_channels, cache_size, file_cache, r_pc, r_cnt,
               r_block, r_it, r_fidx >>

\* ------------------------------------------------------------- constants
Garbage     == "Garbage"
ReadyToPlay == "ReadyToPlay"
Playing     == "Playing"
Status      == {ReadyToPlay, Playing, Garbage}

NoBlock == -1      \* nullptr as a file_block*

\* <cstdlib>: what jack::process returns
EXIT_SUCCESS == 0
EXIT_FAILURE == 1
NoFile  == [path |-> "", ticket |-> 0]

Paths == {"a.wav", "bad.wav", "missing.wav"}

\* the threads std::thread(&sndfile_thread::run, this) can start
Runners == {"producer", "producer2"}

Threads == Runners \cup {"consumer", "control"}

\* std::filesystem::exists(file)
Exists(path) == path \in {"a.wav", "bad.wav"}

\* sf_open(file) returns a handle
Openable(path) == path = "a.wav"

\* file_block(block_size): a block as constructed, tagged Garbage
file_block == [status |-> Garbage, src |-> 0]

\* ----------------------------------------------------- ring buffer parts
\* _data.size()
DataSize == Len(data)

\* prealloc_ringbuffer::empty(), on a loaded _size
IsEmpty(sz) == sz = 0

\* prealloc_ringbuffer::full(), on a loaded _size
IsFull(sz) == sz = DataSize

\* i < _buffer.size() on size_t: a wrapped _size is above every index
IndexBelow(i, sz) == sz < 0 \/ i < sz

\* operator[] as it would be without the offset _start
SlotAt_physical(idx) == idx % DataSize

\* operator[]: the slot of logical index idx
SlotAt(idx) == (idx + start) % DataSize

\* front(): the slot _data[_start]
FrontSlot == start

\* back(): the slot _data[_end-1], _data.back() when _end == 0
BackSlot == IF end = 0 THEN DataSize - 1 ELSE end - 1

TagOf(k) == data[k + 1].status
SrcOf(k) == data[k + 1].src

SetTag(k, tag) == [data EXCEPT ![k + 1].status = tag]
SetSrc(k, src) == [data EXCEPT ![k + 1].src = src]

\* ------------------------------------------------------------ the mutex
\* a lock that does not wait for the holder
Lock_nowait(t) == playlist_mutex' = playlist_mutex \cup {t}

\* std::lock_guard / std::unique_lock: blocks until the mutex is free
Lock(t) ==
  /\ playlist_mutex = {}
  /\ playlist_mutex' = playlist_mutex \cup {t}

Unlock(t) == playlist_mutex' = playlist_mutex \ {t}

\* ---------------------------------------------------------- the playlist
\* back() taken where front() is meant
PlaylistFront_back(pl) == pl[Len(pl)]

\* _playlist.front()
PlaylistFront(pl) == Head(pl)

\* _playlist.pop_front()
PlaylistPopFront(pl) == Tail(pl)

\* push_front where push_back is meant
PlaylistPushBack_front(pl, entry) == << entry >> \o pl

\* _playlist.push_back(file)
PlaylistPushBack(pl, entry) == Append(pl, entry)

\* the history of a playlist access by thread t
Touch(t) ==
  /\ pl_users' = pl_users \cup {t}
  /\ pl_unlocked' = (pl_unlocked \/ t \notin playlist_mutex)

\* ------------------------------------------------ pop_front, step by step
\* pop_front: if (_size>0u) and _start = (_start + 1u) % _data.size(), each
\* on the value the caller's test loaded or on the field loaded again; skip
\* is where the caller goes on when the test fails
PopStart(t, from, to, skip) ==
  /\ pc[t] = from
  /\ \E sz \in {pop_size[t], size}, st \in {pop_start[t], start} :
       IF sz # 0
         THEN /\ start' = (st + 1) % DataSize
              /\ pop_size' = [pop_size EXCEPT ![t] = sz]
              /\ pc' = [pc EXCEPT ![t] = to]
         ELSE /\ pop_size' = [pop_size EXCEPT ![t] = 0]
              /\ pc' = [pc EXCEPT ![t] = skip]
              /\ UNCHANGED start
  /\ pop_start' = [pop_start EXCEPT ![t] = 0]
  /\ UNCHANGED << data, end, size >>

\* --_size: on the _size loaded by the test, or on _size loaded again
PopSize(t, from, to) ==
  /\ pc[t] = from
  /\ \E v \in {pop_size[t], size} : size' = v - 1
  /\ size' >= -MaxWrap
  /\ pc' = [pc EXCEPT ![t] = to]
  /\ pop_size' = [pop_size EXCEPT ![t] = 0]
  /\ UNCHANGED << data, start, end, pop_start >>

\* the loads pop_front's caller made
PopLoad(t) ==
  /\ pop_start' = [pop_start EXCEPT ![t] = start]
  /\ pop_size' = [pop_size EXCEPT ![t] = size]

\* --------------------------------------------------------- scheduling
\* a call of the consumer (the callback, from next_block to the demotion) or
\* of the control thread (append_file, stop_files) is under way
Busy(t) ==
  CASE t = "consumer" -> pc[t] = "process" \/ c_i > 0
    [] t = "control" -> pc[t] # "idle"
    [] OTHER -> FALSE

\* sched = "any": any thread may step. sched = "alone": a call of the
\* consumer or of the control thread, once begun, runs to its end with no
\* step of another thread; the producer can be anywhere in its loop.
\* No thread steps once a failed assert or std::terminate has aborted the
\* process, nor once the object is destroyed
Runs(t) ==
  /\ \A u \in Threads : pc[u] \notin {"aborted", "destroyed"}
  /\ sched = "alone" => \A u \in {"consumer", "control"} \ {t} : ~Busy(u)
  /\ UNCHANGED << sched, ndebug, resVars >>

\* a step that leaves the fields of init and spawn alone
Sched(t) ==
  /\ Runs(t)
  /\ UNCHANGED << cfgVars, lifeVars >>

\* ------------------------------------------------------------- producer
\* run: if (_running) return
PRunEntry(t) ==
  /\ pc[t] = "entry"
  /\ pc' = [pc EXCEPT ![t] = IF running THEN "returned" ELSE "run_set"]
  /\ UNCHANGED << ringVars, fileVars, playlist_mutex, prodVars, consVars,
                  ctlVars, plVars, logVars, rbVars, pop_start, pop_size,
                  open_log >>
  /\ Sched(t)

\* run: _running = true
PRunSet(t) ==
  /\ pc[t] = "run_set"
  /\ running' = TRUE
  /\ pc' = [pc EXCEPT ![t] = "run"]
  /\ UNCHANGED << ringVars, fileVars, playlist_mutex, prodVars, consVars,
                  ctlVars, plVars, logVars, rbVars, pop_start, pop_size,
                  open_log, cfgVars, thread_joinable, ringbuffer_size,
                  spawns_left, inits_left, k_bs, k_sr >>
  /\ Runs(t)

\* run: while(_running) { check_files(); read_buffers(); sleep_for(...) }
PRun(t) ==
  /\ pc[t] = "run"
  /\ pc' = [pc EXCEPT ![t] = IF running THEN "check_files" ELSE "returned"]
  /\ UNCHANGED << ringVars, fileVars, playlist_mutex, prodVars, consVars,
                  ctlVars, plVars, logVars, rbVars, pop_start, pop_size,
                  open_log >>
  /\ Sched(t)

\* check_files: while (!_playing_file) { lock ... }
PCheckFiles(t) ==
  /\ pc[t] = "check_files"
  /\ IF playing_file
       THEN /\ pc' = [pc EXCEPT ![t] = "read_buffers"]
            /\ UNCHANGED playlist_mutex
       ELSE /\ Lock(t)
            /\ pc' = [pc EXCEPT ![t] = "cf_locked"]
  /\ UNCHANGED << ringVars, fileVars, prodVars, consVars, ctlVars, plVars,
                  logVars, rbVars, pop_start, pop_size, open_log >>
  /\ Sched(t)

\* check_files: the playlist is empty (return), or its front is taken
PTakeFile(t) ==
  /\ pc[t] = "cf_locked"
  /\ Touch(t)
  /\ IF playlist = << >>
       THEN /\ pc' = [pc EXCEPT ![t] = "read_buffers"]
            /\ UNCHANGED << playlist, p_file >>
       ELSE /\ p_file' = [p_file EXCEPT ![t] = PlaylistFront(playlist)]
            /\ playlist' = PlaylistPopFront(playlist)
            /\ pc' = [pc EXCEPT ![t] = "cf_open"]
  /\ Unlock(t)
  /\ UNCHANGED << ringVars, fileVars, p_sz, p_block, consVars, ctlVars, logVars, rbVars,
                  pop_start, pop_size, open_log >>
  /\ Sched(t)

\* check_files that sets _playing_file whatever sf_open returned
POpen_flagOnFailure(t) ==
  /\ pc[t] = "cf_open"
  /\ open_log' = Append(open_log, p_file[t].ticket)
  /\ IF Openable(p_file[t].path)
       THEN /\ file_handler' = p_file[t].ticket
            /\ file_left' = FullReads
            /\ open_files' = open_files \cup {p_file[t].ticket}
            /\ playing_file' = TRUE
       ELSE /\ file_handler' = 0
            /\ playing_file' = TRUE
            /\ UNCHANGED << file_left, open_files >>
  /\ p_file' = [p_file EXCEPT ![t] = NoFile]
  /\ pc' = [pc EXCEPT ![t] = "check_files"]
  /\ UNCHANGED << ringVars, playlist_mutex, p_sz, p_block, consVars, ctlVars, plVars,
                  logVars, rbVars, pop_start, pop_size >>
  /\ Sched(t)

\* check_files: _file_handler = sf_open(...); on success the session is set up
POpen(t) ==
  /\ pc[t] = "cf_open"
  /\ open_log' = Append(open_log, p_file[t].ticket)
  /\ IF Openable(p_file[t].path)
       THEN /\ file_handler' = p_file[t].ticket
            /\ file_left' = FullReads
            /\ open_files' = open_files \cup {p_file[t].ticket}
            /\ playing_file' = TRUE
       ELSE /\ file_handler' = 0
            /\ UNCHANGED << file_left, open_files, playing_file >>
  /\ p_file' = [p_file EXCEPT ![t] = NoFile]
  /\ pc' = [pc EXCEPT ![t] = "check_files"]
  /\ UNCHANGED << ringVars, playlist_mutex, p_sz, p_block, consVars, ctlVars, plVars,
                  logVars, rbVars, pop_start, pop_size >>
  /\ Sched(t)

\* read_buffers: if (_playing_file); otherwise run() sleeps and loops
PReadBuffers(t) ==
  /\ pc[t] = "read_buffers"
  /\ pc' = [pc EXCEPT ![t] =
               IF playing_file THEN "gc" ELSE "run"]
  /\ UNCHANGED << ringVars, fileVars, playlist_mutex, prodVars, consVars,
                  ctlVars, plVars, logVars, rbVars, pop_start, pop_size,
                  open_log >>
  /\ Sched(t)

\* read_buffers without its garbage collection
PGarbageCollect_never(t) ==
  /\ pc[t] = "gc"
  /\ pc' = [pc EXCEPT ![t] = "rb_while"]
  /\ UNCHANGED << pop_start, pop_size >>
  /\ UNCHANGED << ringVars, fileVars, playlist_mutex, prodVars, consVars,
                  ctlVars, plVars, logVars, rbVars, open_log >>
  /\ Sched(t)

\* read_buffers: while (!empty() && front().status == Garbage) pop_front()
PGarbageCollect(t) ==
  /\ pc[t] = "gc"
  /\ IF ~IsEmpty(size) /\ TagOf(FrontSlot) = Garbage
       THEN /\ PopLoad(t)
            /\ pc' = [pc EXCEPT ![t] = "gc_start"]
       ELSE /\ pc' = [pc EXCEPT ![t] = "rb_while"]
            /\ UNCHANGED << pop_start, pop_size >>
  /\ UNCHANGED << ringVars, fileVars, playlist_mutex, prodVars, consVars,
                  ctlVars, plVars, logVars, rbVars, open_log >>
  /\ Sched(t)

\* pop_front as called by the garbage collection, or by push_back
PPopStart(t) ==
  /\ pc[t] \in {"gc_start", "push_pop_start"}
  /\ PopStart(t, pc[t],
              IF pc[t] = "gc_start" THEN "gc_size" ELSE "push_pop_size",
              IF pc[t] = "gc_start" THEN "gc" ELSE "read_block")
  /\ UNCHANGED << fileVars, playlist_mutex, prodVars, consVars, ctlVars,
                  plVars, logVars, rbVars, open_log >>
  /\ Sched(t)

PPopSize(t) ==
  /\ pc[t] \in {"gc_size", "push_pop_size"}
  /\ PopSize(t, pc[t],
             IF pc[t] = "gc_size" THEN "gc" ELSE "read_block")
  /\ UNCHANGED << fileVars, playlist_mutex, prodVars, consVars, ctlVars,
                  plVars, logVars, rbVars, open_log >>
  /\ Sched(t)

\* read_buffers' loop without its test !_buffer.full()
PWhile_ignoresFull(t) ==
  /\ pc[t] = "rb_while"
  /\ IF playing_file
       THEN /\ p_sz' = [p_sz EXCEPT ![t] = size]
            /\ pc' = [pc EXCEPT ![t] = "push_back"]
       ELSE /\ p_sz' = [p_sz EXCEPT ![t] = 0]
            /\ pc' = [pc EXCEPT ![t] = "run"]
  /\ UNCHANGED << ringVars, fileVars, playlist_mutex, p_file, p_block, consVars,
                  ctlVars, plVars, logVars, rbVars, pop_start, pop_size,
                  open_log >>
  /\ Sched(t)

\* read_buffers: while (_playing_file && !_buffer.full())
PWhile(t) ==
  /\ pc[t] = "rb_while"
  /\ IF playing_file /\ ~IsFull(size)
       THEN /\ p_sz' = [p_sz EXCEPT ![t] = size]
            /\ pc' = [pc EXCEPT ![t] = "push_back"]
       ELSE /\ p_sz' = [p_sz EXCEPT ![t] = 0]
            /\ pc' = [pc EXCEPT ![t] = "run"]
  /\ UNCHANGED << ringVars, fileVars, playlist_mutex, p_file, p_block, consVars,
                  ctlVars, plVars, logVars, rbVars, pop_start, pop_size,
                  open_log >>
  /\ Sched(t)

\* push_back: _end advances; a full buffer pops its front, else ++_size
\* (on the _size loaded by full(), or on _size loaded again)
PPushBack(t) ==
  /\ pc[t] = "push_back"
  /\ end' = (end + 1) % DataSize
  /\ IF IsFull(size)
       THEN /\ PopLoad(t)
            /\ pc' = [pc EXCEPT ![t] = "push_pop_start"]
            /\ UNCHANGED size
       ELSE /\ \E v \in {p_sz[t], size} : size' = v + 1
            /\ pc' = [pc EXCEPT ![t] = "read_block"]
            /\ UNCHANGED << pop_start, pop_size >>
  /\ p_sz' = [p_sz EXCEPT ![t] = 0]
  /\ UNCHANGED << data, start, fileVars, playlist_mutex, p_file, p_block, consVars,
                  ctlVars, plVars, logVars, rbVars, open_log >>
  /\ Sched(t)

\* read_block that leaves _playing_file set on a short read
PReadBlock_keepsFlag(t) ==
  /\ pc[t] = "read_block"
  /\ IF ~playing_file /\ ~ndebug
       THEN /\ pc' = [pc EXCEPT ![t] = "aborted"]
            /\ UNCHANGED << data, fileVars, fill_log, p_block >>
       ELSE /\ p_block' = [p_block EXCEPT ![t] = BackSlot]
            /\ fill_log' = TagOf(BackSlot)
            /\ IF file_handler # 0
                 THEN /\ data' = SetSrc(BackSlot, file_handler)
                      /\ IF file_left > 0
                           THEN /\ file_left' = file_left - 1
                                /\ UNCHANGED << file_handler, playing_file,
                                                open_files >>
                           ELSE /\ file_handler' = 0
                                /\ UNCHANGED playing_file
                                /\ open_files' = open_files \ {file_handler}
                                /\ UNCHANGED file_left
                 ELSE UNCHANGED << data, fileVars >>
            /\ pc' = [pc EXCEPT ![t] = "rb_tag"]
  /\ UNCHANGED << start, end, size, playlist_mutex, p_file, p_sz, consVars,
                  ctlVars, plVars, tag_log, rbVars, pop_start, pop_size,
                  open_log >>
  /\ Sched(t)

\* read_block(_buffer.back()), the reference to the block being taken at the
\* call: assert(_playing_file), which aborts the process when
\* it fails in a build without NDEBUG; then sf_readf_float into the cache,
\* the file closed on a short read, the block's samples written from the cache
PReadBlock(t) ==
  /\ pc[t] = "read_block"
  /\ IF ~playing_file /\ ~ndebug
       THEN /\ pc' = [pc EXCEPT ![t] = "aborted"]
            /\ UNCHANGED << data, fileVars, fill_log, p_block >>
       ELSE /\ p_block' = [p_block EXCEPT ![t] = BackSlot]
            /\ fill_log' = TagOf(BackSlot)
            /\ IF file_handler # 0
                 THEN /\ data' = SetSrc(BackSlot, file_handler)
                      /\ IF file_left > 0
                           THEN /\ file_left' = file_left - 1
                                /\ UNCHANGED << file_handler, playing_file,
                                                open_files >>
                           ELSE /\ file_handler' = 0
                                /\ playing_file' = FALSE
                                /\ open_files' = open_files \ {file_handler}
                                /\ UNCHANGED file_left
                 ELSE UNCHANGED << data, fileVars >>
            /\ pc' = [pc EXCEPT ![t] = "rb_tag"]
  /\ UNCHANGED << start, end, size, playlist_mutex, p_file, p_sz, consVars,
                  ctlVars, plVars, tag_log, rbVars, pop_start, pop_size,
                  open_log >>
  /\ Sched(t)

\* read_block: block.status = Status::ReadyToPlay
PTagReady(t) ==
  /\ pc[t] = "rb_tag"
  /\ data' = SetTag(p_block[t], ReadyToPlay)
  /\ tag_log' = [by |-> "producer", from |-> TagOf(p_block[t]),
                 to |-> ReadyToPlay]
  /\ pc' = [pc EXCEPT ![t] = "rb_while"]
  /\ UNCHANGED << start, end, size, fileVars, playlist_mutex, prodVars,
                  consVars, ctlVars, plVars, fill_log, rbVars, pop_start,
                  pop_size, open_log >>
  /\ Sched(t)

\* ------------------------------------------------------------- consumer
\* next_block: one turn of for (i=0; i<_buffer.size(); ++i)
CNextBlock ==
  /\ pc["consumer"] = "next_block"
  /\ c_mark' = IF c_i = 0 THEN stop_mark ELSE c_mark
  /\ IF IndexBelow(c_i, size)
       THEN IF TagOf(SlotAt(c_i)) = ReadyToPlay
              THEN /\ data' = SetTag(SlotAt(c_i), Playing)
                   /\ tag_log' = [by |-> "consumer", from |-> ReadyToPlay,
                                  to |-> Playing]
                   /\ c_block' = SlotAt(c_i)
                   /\ c_src' = SrcOf(SlotAt(c_i))
                   /\ pc' = [pc EXCEPT !["consumer"] = "process"]
                   /\ UNCHANGED c_i
              ELSE /\ c_i < MaxScan
                   /\ c_i' = c_i + 1
                   /\ UNCHANGED << data, tag_log, c_block, c_src, pc >>
       ELSE /\ c_block' = NoBlock
            /\ pc' = [pc EXCEPT !["consumer"] = "process"]
            /\ UNCHANGED << data, tag_log, c_i, c_src >>
  /\ UNCHANGED << start, end, size, fileVars, playlist_mutex, prodVars,
                  c_ret, ctlVars, plVars, fill_log, rbVars, pop_start, pop_size,
                  open_log >>
  /\ Sched("consumer")

\* jack::process that demotes the block only when process() succeeded
CProcess_onlyOnSuccess ==
  /\ pc["consumer"] = "process"
  /\ \E ok \in BOOLEAN :
       /\ IF c_block # NoBlock /\ ok
            THEN /\ data' = SetTag(c_block, Garbage)
                 /\ tag_log' = [by |-> "consumer", from |-> TagOf(c_block),
                                to |-> Garbage]
            ELSE UNCHANGED << data, tag_log >>
       /\ c_ret' = IF ok THEN EXIT_SUCCESS ELSE EXIT_FAILURE
  /\ c_block' = NoBlock
  /\ c_i' = 0
  /\ c_src' = 0
  /\ pc' = [pc EXCEPT !["consumer"] = "next_block"]
  /\ UNCHANGED << start, end, size, fileVars, playlist_mutex, prodVars,
                  c_mark, ctlVars, plVars, fill_log, rbVars, pop_start,
                  pop_size, open_log >>
  /\ Sched("consumer")

\* jack::process that returns without demoting the block it obtained
CProcess_keepsPlaying ==
  /\ pc["consumer"] = "process"
  /\ \E ok \in BOOLEAN :
       c_ret' = IF ok THEN EXIT_SUCCESS ELSE EXIT_FAILURE
  /\ UNCHANGED << data, tag_log >>
  /\ c_block' = NoBlock
  /\ c_i' = 0
  /\ c_src' = 0
  /\ pc' = [pc EXCEPT !["consumer"] = "next_block"]
  /\ UNCHANGED << start, end, size, fileVars, playlist_mutex, prodVars,
                  c_mark, ctlVars, plVars, fill_log, rbVars, pop_start,
                  pop_size, open_log >>
  /\ Sched("consumer")

\* jack::process after next_file_block(): ok = the client's process(), then
\* file_block_ptr->status = Garbage when a block was obtained, and
\* return ok ? EXIT_SUCCESS : EXIT_FAILURE
CProcess ==
  /\ pc["consumer"] = "process"
  /\ \E ok \in BOOLEAN :
       c_ret' = IF ok THEN EXIT_SUCCESS ELSE EXIT_FAILURE
  /\ IF c_block # NoBlock
       THEN /\ data' = SetTag(c_block, Garbage)
            /\ tag_log' = [by |-> "consumer", from |-> TagOf(c_block),
                           to |-> Garbage]
       ELSE UNCHANGED << data, tag_log >>
  /\ c_block' = NoBlock
  /\ c_i' = 0
  /\ c_src' = 0
  /\ pc' = [pc EXCEPT !["consumer"] = "next_block"]
  /\ UNCHANGED << start, end, size, fileVars, playlist_mutex, prodVars,
                  c_mark, ctlVars, plVars, fill_log, rbVars, pop_start,
                  pop_size, open_log >>
  /\ Sched("consumer")

\* -------------------------------------------------------------- control
\* append_file(file): the file does not exist
KAppendMissing(file) ==
  /\ pc["control"] = "idle"
  /\ appends_left > 0
  /\ ~Exists(file)
  /\ appends_left' = appends_left - 1
  /\ k_arg' = file
  /\ k_prev' = k_op
  /\ k_op' = "append_file"
  /\ k_ret' = "false"
  /\ UNCHANGED << ringVars, fileVars, playlist_mutex, prodVars, consVars,
                  stops_left, tickets, stop_mark, plVars, logVars, rbVars,
                  pop_start, pop_size, open_log, pc >>
  /\ Sched("control")

\* append_file(file): the file exists, the mutex is taken
KAppendLock(file) ==
  /\ pc["control"] = "idle"
  /\ appends_left > 0
  /\ Exists(file)
  /\ Lock("control")
  /\ appends_left' = appends_left - 1
  /\ k_arg' = file
  /\ k_prev' = k_op
  /\ k_op' = "append_file"
  /\ k_ret' = "pending"
  /\ pc' = [pc EXCEPT !["control"] = "append_locked"]
  /\ UNCHANGED << ringVars, fileVars, prodVars, consVars, stops_left, tickets,
                  stop_mark, plVars, logVars, rbVars, pop_start, pop_size,
                  open_log >>
  /\ Sched("control")

\* append_file: _playlist.push_back(file); return true
KAppendPush ==
  /\ pc["control"] = "append_locked"
  /\ Touch("control")
  /\ playlist' = PlaylistPushBack(playlist,
                                  [path |-> k_arg, ticket |-> tickets + 1])
  /\ tickets' = tickets + 1
  /\ Unlock("control")
  /\ k_ret' = "true"
  /\ pc' = [pc EXCEPT !["control"] = "idle"]
  /\ UNCHANGED << ringVars, fileVars, prodVars, consVars, k_arg, k_op, k_prev,
                  appends_left, stops_left, stop_mark, logVars, rbVars,
                  pop_start, pop_size, open_log >>
  /\ Sched("control")

\* stop_files: the mutex is taken
KStopLock ==
  /\ pc["control"] = "idle"
  /\ stops_left > 0
  /\ Lock("control")
  /\ stops_left' = stops_left - 1
  /\ k_prev' = k_op
  /\ k_op' = "stop_files"
  /\ k_ret' = "pending"
  /\ k_arg' = ""
  /\ pc' = [pc EXCEPT !["control"] = "stop_locked"]
  /\ UNCHANGED << ringVars, fileVars, prodVars, consVars, appends_left,
                  tickets, stop_mark, plVars, logVars, rbVars, pop_start,
                  pop_size, open_log >>
  /\ Sched("control")

\* stop_files without its _playing_file=false
KStopClear_keepsFlag ==
  /\ pc["control"] = "stop_locked"
  /\ Touch("control")
  /\ UNCHANGED playing_file
  /\ playlist' = << >>
  /\ pc' = [pc EXCEPT !["control"] = "drain"]
  /\ UNCHANGED << ringVars, file_handler, file_left, open_files,
                  playlist_mutex, prodVars, consVars, ctlVars, logVars, rbVars,
                  pop_start, pop_size, open_log >>
  /\ Sched("control")

\* stop_files: _playing_file=false; _playlist.clear()
KStopClear ==
  /\ pc["control"] = "stop_locked"
  /\ Touch("control")
  /\ playing_file' = FALSE
  /\ playlist' = << >>
  /\ pc' = [pc EXCEPT !["control"] = "drain"]
  /\ UNCHANGED << ringVars, file_handler, file_left, open_files,
                  playlist_mutex, prodVars, consVars, ctlVars, logVars, rbVars,
                  pop_start, pop_size, open_log >>
  /\ Sched("control")

\* stop_files: while (!_buffer.empty()) pop_front(); return true
KStopDrain ==
  /\ pc["control"] = "drain"
  /\ IF ~IsEmpty(size)
       THEN /\ PopLoad("control")
            /\ pc' = [pc EXCEPT !["control"] = "drain_start"]
            /\ UNCHANGED << playlist_mutex, k_ret, stop_mark >>
       ELSE /\ Unlock("control")
            /\ k_ret' = "true"
            /\ stop_mark' = tickets
            /\ pc' = [pc EXCEPT !["control"] = "idle"]
            /\ UNCHANGED << pop_start, pop_size >>
  /\ UNCHANGED << ringVars, fileVars, prodVars, consVars, k_arg, k_op, k_prev,
                  appends_left, stops_left, tickets, plVars, logVars, rbVars,
                  open_log >>
  /\ Sched("control")

KDrainPopStart ==
  /\ PopStart("control", "drain_start", "drain_size", "drain")
  /\ UNCHANGED << fileVars, playlist_mutex, prodVars, consVars, ctlVars,
                  plVars, logVars, rbVars, open_log >>
  /\ Sched("control")

KDrainPopSize ==
  /\ PopSize("control", "drain_size", "drain")
  /\ UNCHANGED << fileVars, playlist_mutex, prodVars, consVars, ctlVars,
                  plVars, logVars, rbVars, open_log >>
  /\ Sched("control")

\* std::vector::resize(n, other): the elements kept, new ones copies of other
Resize(seq, n, other) ==
  [k \in 1..n |-> IF k <= Len(seq) THEN seq[k] ELSE other]

\* init that does not look at _playing_file
KInitTest_unguarded(bs, sr) ==
  /\ pc["control"] = "idle"
  /\ inits_left > 0
  /\ inits_left' = inits_left - 1
  /\ k_bs' = bs
  /\ k_sr' = sr
  /\ k_arg' = ""
  /\ k_prev' = k_op
  /\ k_op' = "init"
  /\ k_ret' = "none"
  /\ pc' = [pc EXCEPT !["control"] = "init_body"]
  /\ UNCHANGED << ringVars, fileVars, playlist_mutex, prodVars, consVars,
                  appends_left, stops_left, tickets, stop_mark, plVars,
                  logVars, rbVars, pop_start, pop_size, open_log, cfgVars,
                  running, thread_joinable, ringbuffer_size, spawns_left >>
  /\ Runs("control")

\* init(block_size, sampling_rate): if (!_playing_file); it returns at once
\* when the flag is set
KInitTest(bs, sr) ==
  /\ pc["control"] = "idle"
  /\ inits_left > 0
  /\ inits_left' = inits_left - 1
  /\ k_bs' = bs
  /\ k_sr' = sr
  /\ k_arg' = ""
  /\ k_prev' = k_op
  /\ k_op' = "init"
  /\ k_ret' = "none"
  /\ pc' = [pc EXCEPT !["control"] =
               IF playing_file THEN "idle" ELSE "init_body"]
  /\ UNCHANGED << ringVars, fileVars, playlist_mutex, prodVars, consVars,
                  appends_left, stops_left, tickets, stop_mark, plVars,
                  logVars, rbVars, pop_start, pop_size, open_log, cfgVars,
                  running, thread_joinable, ringbuffer_size, spawns_left >>
  /\ Runs("control")

\* init that empties the playlist as well
KInitBody_clearsPlaylist ==
  /\ pc["control"] = "init_body"
  /\ block_size' = k_bs
  /\ ringbuffer_size' = Capacity
  /\ data' = Resize(data, Capacity, file_block)
  /\ start' = 0
  /\ end' = 0
  /\ size' = 0
  /\ sampling_rate' = k_sr
  /\ running' = FALSE
  /\ file_handler' = 0
  /\ playing_file' = FALSE
  /\ playlist' = << >>
  /\ pc' = [pc EXCEPT !["control"] = "idle"]
  /\ UNCHANGED << file_left, open_files, playlist_mutex, prodVars, consVars,
                  ctlVars, pl_users, pl_unlocked, logVars, rbVars, pop_start, pop_size,
                  open_log, thread_joinable, spawns_left, inits_left, k_bs,
                  k_sr >>
  /\ Runs("control")

\* init: the assignments, with _buffer.allocate(buffer_size, file_block(...));
\* buffer_size is the default capacity, its caller passing none
KInitBody ==
  /\ pc["control"] = "init_body"
  /\ block_size' = k_bs
  /\ ringbuffer_size' = Capacity
  /\ data' = Resize(data, Capacity, file_block)
  /\ start' = 0
  /\ end' = 0
  /\ size' = 0
  /\ sampling_rate' = k_sr
  /\ running' = FALSE
  /\ file_handler' = 0
  /\ playing_file' = FALSE
  /\ pc' = [pc EXCEPT !["control"] = "idle"]
  /\ UNCHANGED << file_left, open_files, playlist_mutex, prodVars, consVars,
                  ctlVars, plVars, logVars, rbVars, pop_start, pop_size,
                  open_log, thread_joinable, spawns_left, inits_left, k_bs,
                  k_sr >>
  /\ Runs("control")

\* the runner a new std::thread is
FreeRunner ==
  IF pc["producer"] = "unspawned" THEN "producer" ELSE "producer2"

\* spawn: if (!_running), then the std::thread is constructed: run() starts
KSpawn ==
  /\ pc["control"] = "idle"
  /\ spawns_left > 0
  /\ spawns_left' = spawns_left - 1
  /\ k_arg' = ""
  /\ k_prev' = k_op
  /\ k_op' = "spawn"
  /\ k_ret' = "none"
  /\ IF running
       THEN UNCHANGED pc
       ELSE /\ pc[FreeRunner] = "unspawned"
            /\ pc' = [pc EXCEPT ![FreeRunner] = "entry",
                                !["control"] = "spawn_assign"]
  /\ UNCHANGED << ringVars, fileVars, playlist_mutex, prodVars, consVars,
                  appends_left, stops_left, tickets, stop_mark, plVars,
                  logVars, rbVars, pop_start, pop_size, open_log, cfgVars,
                  running, thread_joinable, ringbuffer_size, inits_left, k_bs,
                  k_sr >>
  /\ Runs("control")

\* spawn: _thread = std::thread(...), which is std::terminate() when _thread
\* is joinable
KSpawnAssign ==
  /\ pc["control"] = "spawn_assign"
  /\ IF thread_joinable
       THEN /\ pc' = [pc EXCEPT !["control"] = "aborted"]
            /\ UNCHANGED thread_joinable
       ELSE /\ thread_joinable' = TRUE
            /\ pc' = [pc EXCEPT !["control"] = "idle"]
  /\ UNCHANGED << ringVars, fileVars, playlist_mutex, prodVars, consVars,
                  ctlVars, plVars, logVars, rbVars, pop_start, pop_size,
                  open_log, cfgVars, running, ringbuffer_size, spawns_left,
                  inits_left, k_bs, k_sr >>
  /\ Runs("control")

\* ~sndfile_thread: _running=false; if (_thread.joinable())
KDtorClear ==
  /\ pc["control"] = "idle"
  /\ running' = FALSE
  /\ k_arg' = ""
  /\ k_prev' = k_op
  /\ k_op' = "~sndfile_thread"
  /\ k_ret' = "none"
  /\ pc' = [pc EXCEPT !["control"] =
               IF thread_joinable THEN "join" ELSE "destroyed"]
  /\ UNCHANGED << ringVars, fileVars, playlist_mutex, prodVars, consVars,
                  appends_left, stops_left, tickets, stop_mark, plVars,
                  logVars, rbVars, pop_start, pop_size, open_log, cfgVars,
                  thread_joinable, ringbuffer_size, spawns_left, inits_left,
                  k_bs, k_sr >>
  /\ Runs("control")

\* the runner _thread stands for: the first one spawn constructed, the
\* assignment of a second one to the joinable _thread being std::terminate
JoinedRunner == "producer"

\* ~sndfile_thread: _thread.join(), which returns when run() has returned
KDtorJoin ==
  /\ pc["control"] = "join"
  /\ pc[JoinedRunner] = "returned"
  /\ thread_joinable' = FALSE
  /\ pc' = [pc EXCEPT !["control"] = "destroyed"]
  /\ UNCHANGED << ringVars, fileVars, playlist_mutex, prodVars, consVars,
                  ctlVars, plVars, logVars, rbVars, pop_start, pop_size,
                  open_log, cfgVars, running, ringbuffer_size, spawns_left,
                  inits_left, k_bs, k_sr >>
  /\ Runs("control")

\* ------------------------------------- the ring buffer, call by call
\* the markers of a prealloc_ringbuffer
Markers == [start |-> start, end |-> end, size |-> size]

\* prealloc_ringbuffer::pop_front
pop_front(rb, n) ==
  IF rb.size > 0
    THEN [rb EXCEPT !.start = (rb.start + 1) % n, !.size = rb.size - 1]
    ELSE rb

\* push_back without its test for a full buffer
push_back_unchecked(rb, n) ==
  [rb EXCEPT !.end = (rb.end + 1) % n, !.size = rb.size + 1]

\* prealloc_ringbuffer::push_back
push_back(rb, n) ==
  LET moved == [rb EXCEPT !.end = (rb.end + 1) % n]
  IN  IF moved.size = n
        THEN pop_front(moved, n)
        ELSE [moved EXCEPT !.size = moved.size + 1]

\* a caller's push_back(), the slot back() then filled with the call's number
RBPushBack ==
  /\ pushes < MaxPushes
  /\ LET rb == push_back(Markers, DataSize)
         slot == IF rb.end = 0 THEN DataSize - 1 ELSE rb.end - 1
     IN  /\ start' = rb.start
         /\ end' = rb.end
         /\ size' = rb.size
         /\ data' = [data EXCEPT ![slot + 1] =
                        [status |-> ReadyToPlay, src |-> pushes + 1]]
  /\ pushes' = pushes + 1
  /\ UNCHANGED << fileVars, playlist_mutex, prodVars, consVars, ctlVars,
                  plVars, logVars, pops, allocs, pop_start, pop_size, open_log,
                  pc, sched, ndebug, cfgVars, lifeVars, resVars >>

\* a caller's pop_front()
RBPopFront ==
  /\ pops < MaxPops
  /\ LET rb == pop_front(Markers, DataSize)
     IN  /\ start' = rb.start
         /\ end' = rb.end
         /\ size' = rb.size
  /\ pops' = pops + 1
  /\ UNCHANGED << data, fileVars, playlist_mutex, prodVars, consVars, ctlVars,
                  plVars, logVars, pushes, allocs, pop_start, pop_size, open_log,
                  pc, sched, ndebug, cfgVars, lifeVars, resVars >>

\* a caller's allocate(n, file_block()): _data.resize(n, other), which keeps
\* the elements _data has and appends copies of other; the markers reset
RBAllocate(n) ==
  /\ Len(allocs) < MaxAllocs
  /\ data' = Resize(data, n, file_block)
  /\ start' = 0
  /\ end' = 0
  /\ size' = 0
  /\ allocs' = Append(allocs, n)
  /\ UNCHANGED << fileVars, playlist_mutex, prodVars, consVars, ctlVars,
                  plVars, logVars, pushes, pops, pop_start, pop_size, open_log,
                  pc, sched, ndebug, cfgVars, lifeVars, resVars >>

\* --------------------------------------------------------- resampling
\* A float is kept as the integer value * F32One: the floats from 1/4 up
\* are whole numbers of these units.
F32One == 2^25

\* the spacing, in units, of the floats around n/d units (24 significant
\* bits), found by doubling p
RECURSIVE F32Ulp(_, _, _)
F32Ulp(p, n, d) ==
  IF 2 * p * d <= n \div (2^23) THEN F32Ulp(2 * p, n, d) ELSE p

\* n/d units rounded to the nearest float, ties to the even mantissa
F32Round(n, d) ==
  LET p == F32Ulp(1, n, d)
      q == n \div (d * p)
      r == n % (d * p)
  IN  p * (IF 2 * r > d * p \/ (2 * r = d * p /\ q % 2 = 1) THEN q + 1 ELSE q)

\* float(a)/float(b) for two small integers
F32Div(a, b) == F32Round(a * F32One, b)

\* x + y on floats
F32Add(x, y) == F32Round(x + y, 1)

\* static_cast<std::size_t>(x)
F32Trunc(x) == x \div F32One

\* a sample of a block: the float sum/over
Sample(sum, over) == [sum |-> sum, over |-> over]

\* 0.0f
ZeroSample == Sample(0, 1)

\* a float of new float[size], never written
JunkSample == Sample(-1, 1)

\* _cache_size without the rounding up
CacheSize_floor(bs, rate, out) == (bs * rate) \div out

\* check_files: (_block_size * _current_file_sample_rate + _sampling_rate - 1)
\*              / _sampling_rate
CacheSize(bs, rate, out) == (bs * rate + out - 1) \div out

\* jack_samples taken as the whole block, whatever was read
JackSamples_wholeBlock(len, cnt, out, rate) == len

\* jack_samples with the quotient rounded up
JackSamples_roundsUp(len, cnt, out, rate) ==
  LET q == (cnt * out + rate - 1) \div rate IN IF len < q THEN len ELSE q

\* read_block: std::min(block.size(), cnt*_sampling_rate/_current_file_sample_rate)
JackSamples(len, cnt, out, rate) ==
  LET q == (cnt * out) \div rate IN IF len < q THEN len ELSE q

\* mem[p-1]; a read past the cache gives a float that was never written
CacheAt(p) == IF p <= Len(file_cache) THEN file_cache[p] ELSE -1

\* acc: the sum of the n interleaved values from position first on
RECURSIVE FrameSum(_, _)
FrameSum(first, n) ==
  IF n = 0 THEN 0 ELSE CacheAt(first) + FrameSum(first + 1, n - 1)

\* check_files after a successful sf_open that reported rate and channels:
\* the cache size, _file_cache.resize(...), _playing_file = true
ROpen(rate, channels) ==
  /\ r_pc = "open"
  /\ file_rate' = rate
  /\ file_channels' = channels
  /\ cache_size' = CacheSize(block_size, rate, sampling_rate)
  /\ file_cache' = [p \in 1..(channels * cache_size') |-> -1]
  /\ file_handler' = 1
  /\ open_files' = {1}
  /\ playing_file' = TRUE
  /\ r_pc' = "while"
  /\ UNCHANGED << ringVars, file_left, playlist_mutex, prodVars, consVars,
                  ctlVars, plVars, logVars, rbVars, pop_start, pop_size,
                  open_log, pc, sched, ndebug, cfgVars, lifeVars, r_cnt, r_block, r_it,
                  r_fidx >>

\* read_buffers: the test of while(_playing_file && !_buffer.full()), made
\* after check_files and after each read_block
RWhile ==
  /\ r_pc \in {"while", "done"}
  /\ r_pc' = IF playing_file /\ ~IsFull(size) THEN "push" ELSE "end"
  /\ UNCHANGED << ringVars, fileVars, playlist_mutex, prodVars, consVars,
                  ctlVars, plVars, logVars, rbVars, pop_start, pop_size,
                  open_log, pc, sched, ndebug, cfgVars, lifeVars, file_rate,
                  file_channels, cache_size, file_cache, r_cnt, r_block, r_it,
                  r_fidx >>

\* read_buffers: _buffer.push_back(); the block back() refers to holds the
\* samples its slot was left with
RPushBack ==
  /\ r_pc = "push"
  /\ LET rb == push_back(Markers, DataSize)
     IN  /\ start' = rb.start
         /\ end' = rb.end
         /\ size' = rb.size
  /\ r_block' = [i \in 1..block_size |-> JunkSample]
  /\ r_pc' = "read"
  /\ UNCHANGED << data, fileVars, playlist_mutex, prodVars, consVars,
                  ctlVars, plVars, logVars, rbVars, pop_start, pop_size,
                  open_log, pc, sched, ndebug, cfgVars, lifeVars, file_rate,
                  file_channels, cache_size, file_cache, r_cnt, r_it,
                  r_fidx >>

\* read_block: cnt = sf_readf_float(...) gives the first cnt frames of the
\* cache (the value at position p is p); the file is closed on a short read
RRead(cnt) ==
  /\ r_pc = "read"
  /\ cnt <= cache_size
  /\ r_cnt' = cnt
  /\ file_cache' = [p \in 1..Len(file_cache) |->
                      IF p <= cnt * file_channels THEN p ELSE file_cache[p]]
  /\ IF cnt < cache_size
       THEN /\ file_handler' = 0
            /\ open_files' = {}
            /\ playing_file' = FALSE
       ELSE UNCHANGED << file_handler, open_files, playing_file >>
  /\ r_it' = 0
  /\ r_fidx' = 0
  /\ r_pc' = "fill"
  /\ UNCHANGED << ringVars, file_left, playlist_mutex, prodVars, consVars,
                  ctlVars, plVars, logVars, rbVars, pop_start, pop_size,
                  open_log, pc, sched, ndebug, cfgVars, lifeVars, file_rate,
                  file_channels, cache_size, r_block >>

\* read_block: one turn of for (float fidx=0.0f; it!=eit; ++it, fidx+=fstep)
RFill ==
  /\ r_pc = "fill"
  /\ IF r_it # JackSamples(Len(r_block), r_cnt, sampling_rate, file_rate)
       THEN LET idx == F32Trunc(r_fidx) * file_channels
                acc == FrameSum(idx + 1, file_channels)
            IN  /\ r_block' = [r_block EXCEPT ![r_it + 1] =
                                 Sample(acc, file_channels)]
                /\ r_it' = r_it + 1
                /\ r_fidx' = F32Add(r_fidx, F32Div(file_rate, sampling_rate))
                /\ UNCHANGED r_pc
       ELSE /\ r_pc' = "zero"
            /\ UNCHANGED << r_block, r_it, r_fidx >>
  /\ UNCHANGED << ringVars, fileVars, playlist_mutex, prodVars, consVars,
                  ctlVars, plVars, logVars, rbVars, pop_start, pop_size,
                  open_log, pc, sched, ndebug, cfgVars, lifeVars, file_rate,
                  file_channels, cache_size, file_cache, r_cnt >>

\* read_block without its second loop: the samples after the resampled ones
\* keep what they held
RZero_leavesRest ==
  /\ r_pc = "zero"
  /\ r_pc' = "done"
  /\ data' = SetTag(BackSlot, ReadyToPlay)
  /\ UNCHANGED << start, end, size, fileVars, playlist_mutex, prodVars, consVars,
                  ctlVars, plVars, logVars, rbVars, pop_start, pop_size,
                  open_log, pc, sched, ndebug, cfgVars, lifeVars, file_rate,
                  file_channels, cache_size, file_cache, r_cnt, r_fidx,
                  r_block, r_it >>

\* read_block: one turn of for (; it!=block.end(); ++it) *it=0.0f, and at
\* its end block.status = Status::ReadyToPlay
RZero ==
  /\ r_pc = "zero"
  /\ IF r_it # Len(r_block)
       THEN /\ r_block' = [r_block EXCEPT ![r_it + 1] = ZeroSample]
            /\ r_it' = r_it + 1
            /\ UNCHANGED << r_pc, data >>
       ELSE /\ r_pc' = "done"
            /\ data' = SetTag(BackSlot, ReadyToPlay)
            /\ UNCHANGED << r_block, r_it >>
  /\ UNCHANGED << start, end, size, fileVars, playlist_mutex, prodVars, consVars,
                  ctlVars, plVars, logVars, rbVars, pop_start, pop_size,
                  open_log, pc, sched, ndebug, cfgVars, lifeVars, file_rate,
                  file_channels, cache_size, file_cache, r_cnt, r_fidx >>

\* ------------------------------------------------------- specifications
\* the fields of a sndfile_thread with cap slots and no file appended
InitFields(cap, appends, stops) ==
  /\ data = [k \in 1..cap |-> file_block]
  /\ start = 0
  /\ end = 0
  /\ size = 0
  /\ playlist = << >>
  /\ playlist_mutex = {}
  /\ playing_file = FALSE
  /\ file_handler = 0
  /\ file_left = 0
  /\ pop_start = [t \in Runners \cup {"control"} |-> 0]
  /\ pop_size = [t \in Runners \cup {"control"} |-> 0]
  /\ p_file = [t \in Runners |-> NoFile]
  /\ p_sz = [t \in Runners |-> 0]
  /\ p_block = [t \in Runners |-> NoBlock]
  /\ c_i = 0
  /\ c_block = NoBlock
  /\ c_ret = EXIT_SUCCESS
  /\ k_arg = ""
  /\ k_op = "none"
  /\ k_prev = "none"
  /\ k_ret = "none"
  /\ appends_left = appends
  /\ stops_left = stops
  /\ tickets = 0
  /\ open_files = {}
  /\ tag_log = [by |-> "none", from |-> Garbage, to |-> Garbage]
  /\ fill_log = "none"
  /\ open_log = << >>
  /\ pl_users = {}
  /\ pl_unlocked = FALSE
  /\ stop_mark = -1
  /\ c_mark = -1
  /\ c_src = 0
  /\ pushes = 0
  /\ pops = 0
  /\ allocs = << >>
  /\ file_rate = 0
  /\ file_channels = 0
  /\ cache_size = 0
  /\ file_cache = << >>
  /\ r_cnt = 0
  /\ r_it = 0
  /\ r_fidx = 0
  /\ k_bs = 0
  /\ k_sr = 0

\* the state after sndfile_thread::init(block_size, rate, cap) and spawn(),
\* the thread having entered its loop
InitStreamer(cap, stops) ==
  /\ InitFields(cap, MaxAppends, stops)
  /\ pc = [t \in Threads |->
             CASE t = "producer" -> "run"
               [] t = "producer2" -> "unspawned"
               [] t = "consumer" -> "next_block"
               [] OTHER -> "idle"]
  /\ running = TRUE
  /\ thread_joinable = TRUE
  /\ ringbuffer_size = cap
  /\ spawns_left = 0
  /\ inits_left = 0

\* every interleaving of the three threads, in a build with or without
\* NDEBUG
Init ==
  /\ InitStreamer(Capacity, MaxStops)
  /\ sched = "any"
  /\ ndebug \in BOOLEAN
  /\ block_size = MaxBlockSize
  /\ sampling_rate = MaxRate
  /\ r_pc = "none"
  /\ r_block = << >>

\* every interleaving of the three threads, in the default build (meson's
\* buildtype debug: assert() is compiled in)
InitDebug ==
  /\ InitStreamer(Capacity, MaxStops)
  /\ sched = "any"
  /\ ndebug = FALSE
  /\ block_size = MaxBlockSize
  /\ sampling_rate = MaxRate
  /\ r_pc = "none"
  /\ r_block = << >>

\* the calls of the consumer and of the control thread run without
\* interference
InitAlone ==
  /\ InitStreamer(Capacity, AloneStops)
  /\ sched = "alone"
  /\ ndebug \in BOOLEAN
  /\ block_size = MaxBlockSize
  /\ sampling_rate = MaxRate
  /\ r_pc = "none"
  /\ r_block = << >>

\* the ring buffer alone, as prealloc_ringbuffer(RBCapacity, file_block())
InitRB ==
  /\ InitStreamer(RBCapacity, 0)
  /\ sched = "any"
  /\ ndebug = FALSE
  /\ block_size = MaxBlockSize
  /\ sampling_rate = MaxRate
  /\ r_pc = "none"
  /\ r_block = << >>

\* the state after sndfile_thread(), the default constructor, with the
\* calls of init, spawn and append_file still to come
InitLife ==
  /\ InitFields(0, LifeAppends, 0)
  /\ pc = [t \in Threads |->
             CASE t \in Runners -> "unspawned"
               [] t = "consumer" -> "next_block"
               [] OTHER -> "idle"]
  /\ running = FALSE
  /\ thread_joinable = FALSE
  /\ ringbuffer_size = 0
  /\ spawns_left = MaxSpawns
  /\ inits_left = MaxInits
  /\ sched = "any"
  /\ ndebug = FALSE
  /\ block_size = 0
  /\ sampling_rate = 0
  /\ r_pc = "none"
  /\ r_block = << >>

\* every interleaving of the producer, the callback and append_file calls,
\* stop_files never being called
InitPlay ==
  /\ InitStreamer(Capacity, 0)
  /\ sched = "any"
  /\ ndebug = FALSE
  /\ block_size = MaxBlockSize
  /\ sampling_rate = MaxRate
  /\ r_pc = "none"
  /\ r_block = << >>

\* the state after sndfile_thread::init(block_size, rate, cap), with the
\* calls of spawn and append_file and the destruction still to come
InitTeardown ==
  /\ InitFields(Capacity, TeardownAppends, 0)
  /\ pc = [t \in Threads |->
             CASE t \in Runners -> "unspawned"
               [] t = "consumer" -> "next_block"
               [] OTHER -> "idle"]
  /\ running = FALSE
  /\ thread_joinable = FALSE
  /\ ringbuffer_size = Capacity
  /\ spawns_left = TeardownSpawns
  /\ inits_left = 0
  /\ sched = "any"
  /\ ndebug = FALSE
  /\ block_size = MaxBlockSize
  /\ sampling_rate = MaxRate
  /\ r_pc = "none"
  /\ r_block = << >>

\* the state after sndfile_thread(), the default constructor, where main
\* appends files and calls jack::client::init once, which calls init and
\* then spawn once each
InitStartup ==
  /\ InitFields(0, MaxAppends, 0)
  /\ pc = [t \in Threads |->
             CASE t \in Runners -> "unspawned"
               [] t = "consumer" -> "next_block"
               [] OTHER -> "idle"]
  /\ running = FALSE
  /\ thread_joinable = FALSE
  /\ ringbuffer_size = 0
  /\ spawns_left = 1
  /\ inits_left = 1
  /\ sched = "any"
  /\ ndebug = FALSE
  /\ block_size = 0
  /\ sampling_rate = 0
  /\ r_pc = "none"
  /\ r_block = << >>

\* one file opened and one block read from it, for every block size, every
\* pair of rates, every channel count and every length of the read
InitResample ==
  /\ InitStreamer(Capacity, 0)
  /\ sched = "any"
  /\ ndebug = FALSE
  /\ block_size \in 1..MaxBlockSize
  /\ sampling_rate \in 1..MaxRate
  /\ r_pc = "open"
  /\ r_block = [i \in 1..block_size |-> JunkSample]

Next ==
  \/ \E t \in Runners : PRun(t)
  \/ \E t \in Runners : PCheckFiles(t)
  \/ \E t \in Runners : PTakeFile(t)
  \/ \E t \in Runners : POpen(t)
  \/ \E t \in Runners : PReadBuffers(t)
  \/ \E t \in Runners : PGarbageCollect(t)
  \/ \E t \in Runners : PPopStart(t)
  \/ \E t \in Runners : PPopSize(t)
  \/ \E t \in Runners : PWhile(t)
  \/ \E t \in Runners : PPushBack(t)
  \/ \E t \in Runners : PReadBlock(t)
  \/ \E t \in Runners : PTagReady(t)
  \/ CNextBlock
  \/ CProcess
  \/ \E file \in Paths : KAppendMissing(file)
  \/ \E file \in Paths : KAppendLock(file)
  \/ KAppendPush
  \/ KStopLock
  \/ KStopClear
  \/ KStopDrain
  \/ KDrainPopStart
  \/ KDrainPopSize

NextRB ==
  \/ RBPushBack
  \/ RBPopFront

\* the ring buffer alone, allocate being called too
NextAlloc ==
  \/ RBPushBack
  \/ RBPopFront
  \/ \E n \in (RBCapacity - 1)..(RBCapacity + 1) : RBAllocate(n)

NextLife ==
  \/ \E t \in Runners : PRunEntry(t)
  \/ \E t \in Runners : PRunSet(t)
  \/ \E t \in Runners : PRun(t)
  \/ \E t \in Runners : PCheckFiles(t)
  \/ \E t \in Runners : PTakeFile(t)
  \/ \E t \in Runners : POpen(t)
  \/ \E t \in Runners : PReadBuffers(t)
  \/ \E t \in Runners : PGarbageCollect(t)
  \/ \E t \in Runners : PPopStart(t)
  \/ \E t \in Runners : PPopSize(t)
  \/ \E t \in Runners : PWhile(t)
  \/ \E t \in Runners : PPushBack(t)
  \/ \E t \in Runners : PReadBlock(t)
  \/ \E t \in Runners : PTagReady(t)
  \/ CNextBlock
  \/ CProcess
  \/ \E file \in Paths : KAppendMissing(file)
  \/ \E file \in Paths : KAppendLock(file)
  \/ KAppendPush
  \/ \E bs \in {MaxBlockSize}, sr \in {MaxRate} :
       KInitTest(bs, sr)
  \/ KInitBody
  \/ KSpawn
  \/ KSpawnAssign

NextPlay ==
  \/ \E t \in Runners : PRun(t)
  \/ \E t \in Runners : PCheckFiles(t)
  \/ \E t \in Runners : PTakeFile(t)
  \/ \E t \in Runners : POpen(t)
  \/ \E t \in Runners : PReadBuffers(t)
  \/ \E t \in Runners : PGarbageCollect(t)
  \/ \E t \in Runners : PPopStart(t)
  \/ \E t \in Runners : PPopSize(t)
  \/ \E t \in Runners : PWhile(t)
  \/ \E t \in Runners : PPushBack(t)
  \/ \E t \in Runners : PReadBlock(t)
  \/ \E t \in Runners : PTagReady(t)
  \/ CNextBlock
  \/ CProcess
  \/ \E file \in Paths : KAppendMissing(file)
  \/ \E file \in Paths : KAppendLock(file)
  \/ KAppendPush

\* jack::client::init: _file_thread.spawn() after _file_thread.init(...)
ClientSpawn ==
  /\ inits_left = 0
  /\ KSpawn

NextStartup ==
  \/ \E t \in Runners : PRunEntry(t)
  \/ \E t \in Runners : PRunSet(t)
  \/ \E t \in Runners : PRun(t)
  \/ \E t \in Runners : PCheckFiles(t)
  \/ \E t \in Runners : PTakeFile(t)
  \/ \E t \in Runners : POpen(t)
  \/ \E t \in Runners : PReadBuffers(t)
  \/ \E t \in Runners : PGarbageCollect(t)
  \/ \E t \in Runners : PPopStart(t)
  \/ \E t \in Runners : PPopSize(t)
  \/ \E t \in Runners : PWhile(t)
  \/ \E t \in Runners : PPushBack(t)
  \/ \E t \in Runners : PReadBlock(t)
  \/ \E t \in Runners : PTagReady(t)
  \/ CNextBlock
  \/ CProcess
  \/ \E file \in Paths : KAppendMissing(file)
  \/ \E file \in Paths : KAppendLock(file)
  \/ KAppendPush
  \/ \E bs \in {MaxBlockSize}, sr \in {MaxRate} :
       KInitTest(bs, sr)
  \/ KInitBody
  \/ ClientSpawn
  \/ KSpawnAssign

NextTeardown ==
  \/ \E t \in Runners : PRunEntry(t)
  \/ \E t \in Runners : PRunSet(t)
  \/ \E t \in Runners : PRun(t)
  \/ \E t \in Runners : PCheckFiles(t)
  \/ \E t \in Runners : PTakeFile(t)
  \/ \E t \in Runners : POpen(t)
  \/ \E t \in Runners : PReadBuffers(t)
  \/ \E t \in Runners : PGarbageCollect(t)
  \/ \E t \in Runners : PPopStart(t)
  \/ \E t \in Runners : PPopSize(t)
  \/ \E t \in Runners : PWhile(t)
  \/ \E t \in Runners : PPushBack(t)
  \/ \E t \in Runners : PReadBlock(t)
  \/ \E t \in Runners : PTagReady(t)
  \/ CNextBlock
  \/ CProcess
  \/ \E file \in Paths : KAppendMissing(file)
  \/ \E file \in Paths : KAppendLock(file)
  \/ KAppendPush
  \/ KSpawn
  \/ KSpawnAssign
  \/ KDtorClear
  \/ KDtorJoin

\* the steps of the background thread t
RunnerNext(t) ==
  \/ PRunEntry(t) \/ PRunSet(t) \/ PRun(t) \/ PCheckFiles(t) \/ PTakeFile(t)
  \/ POpen(t) \/ PReadBuffers(t) \/ PGarbageCollect(t) \/ PPopStart(t)
  \/ PPopSize(t) \/ PWhile(t) \/ PPushBack(t) \/ PReadBlock(t)
  \/ PTagReady(t)

\* the steps by which a call of the control thread, once begun, goes on
ControlNext ==
  \/ KAppendPush \/ KSpawnAssign \/ KDtorJoin

\* the callback's steps
ConsumerNext == CNextBlock \/ CProcess

\* fair scheduling: a thread that can step does step; file reads terminate
\* (read_block is one step)
FairScheduling ==
  /\ \A t \in Runners : WF_vars(RunnerNext(t))
  /\ WF_vars(ControlNext)
  /\ WF_vars(ConsumerNext)

NextResample ==
  \/ \E rate \in 1..MaxRate, channels \in 1..MaxChannels : ROpen(rate, channels)
  \/ RWhile
  \/ RPushBack
  \/ \E cnt \in 0..MaxBlockSize * MaxRate : RRead(cnt)
  \/ RFill
  \/ RZero

Spec == Init /\ [][Next]_vars

SpecDebug == InitDebug /\ [][Next]_vars

SpecAlone == InitAlone /\ [][Next]_vars

SpecRB == InitRB /\ [][NextRB]_vars

SpecAlloc == InitRB /\ [][NextAlloc]_vars

SpecLife == InitLife /\ [][NextLife]_vars

SpecResample == InitResample /\ [][NextResample]_vars

SpecPlay == InitPlay /\ [][NextPlay]_vars /\ FairScheduling

SpecStartup == InitStartup /\ [][NextStartup]_vars /\ FairScheduling

SpecTeardown == InitTeardown /\ [][NextTeardown]_vars /\ FairScheduling

\* --------------------------------------------------------------- claims
\* the tag stores the block state machine allows, with the thread of each
TagStep(by, from, to) == [by |-> by, from |-> from, to |-> to]

\* C1: in every interleaving the producer fills and tags only slots that are
\* tagged Garbage when read_block starts on them, and the consumer stores a
\* tag only to the slot it holds claimed (Ready when it claims it, Playing
\* when it demotes it).
C1_SlotOwnership ==
  /\ fill_log \in {"none", Garbage}
  /\ tag_log.by = "producer" => tag_log.from = Garbage
  /\ tag_log.by = "consumer" =>
       << tag_log.from, tag_log.to >> \in
          { << ReadyToPlay, Playing >>, << Playing, Garbage >> }

\* C2: every store to a block tag is Garbage -> Ready by the producer,
\* Ready -> Playing by the consumer or Playing -> Garbage by the consumer.
C2_TagCycle ==
  \/ tag_log.by = "none"
  \/ tag_log \in { TagStep("producer", Garbage, ReadyToPlay),
                   TagStep("consumer", ReadyToPlay, Playing),
                   TagStep("consumer", Playing, Garbage) }

\* C3: after every push_back and pop_front on a ring buffer of capacity C,
\* size() <= C.
C3_SizeAtMostCapacity == size <= Len(data)

\* C3 witness: a push_back was made on a full buffer (more pushes than the
\* pops and the capacity account for) and pops were made too.
C3_Witness == pushes > Len(data) + pops /\ pops > 0

\* C4: after more than C push_back calls and no pop_front, the buffer is
\* full and operator[](0..C-1) addresses the C most recent pushes in order.
C4_KeepsNewest ==
  (pops = 0 /\ pushes > Len(data)) =>
     /\ size = Len(data)
     /\ \A j \in 0..(Len(data) - 1) :
          data[((start + j) % Len(data)) + 1].src = pushes - Len(data) + 1 + j

\* the slot of logical index j, counted from the logical start
LogicalSlot(j) == (start + j) % Len(data)

\* no slot of a logical index below idx is tagged Ready
NoneReadyBelow(idx) ==
  \A j \in 0..(idx - 1) : data[LogicalSlot(j) + 1].status # ReadyToPlay

\* a step of the consumer inside next_block
NextBlockStep ==
  /\ pc["consumer"] = "next_block"
  /\ c_i' # c_i \/ pc'["consumer"] = "process"

\* C5: next_block run without interference returns the Ready slot of the
\* smallest logical index, marked Playing, or no block when no slot within
\* size() is Ready, and changes nothing else. (A negative size stands for a
\* wrapped size_t, which is above every index.)
C5_NextBlockAlone ==
  /\ [] ( pc["consumer"] = "process" =>
            IF c_block # NoBlock
              THEN /\ (size < 0 \/ c_i < size)
                   /\ c_block = LogicalSlot(c_i)
                   /\ data[c_block + 1].status = Playing
                   /\ NoneReadyBelow(c_i)
              ELSE size >= 0 /\ NoneReadyBelow(size) )
  /\ [][ NextBlockStep =>
           /\ UNCHANGED << start, end, size, playlist, playlist_mutex,
                           fileVars >>
           /\ \A k \in 0..(Len(data) - 1) :
                data'[k + 1] # data[k + 1] =>
                  /\ pc'["consumer"] = "process"
                  /\ k = c_block'
                  /\ data[k + 1].status = ReadyToPlay
                  /\ data'[k + 1] = [data[k + 1] EXCEPT !.status = Playing]
       ]_vars

\* C5 witness: next_block has returned the second logical slot, the first
\* one not being Ready.
C5_Witness ==
  /\ sched = "alone"
  /\ pc["consumer"] = "process"
  /\ c_block # NoBlock
  /\ c_i = 1

\* C6: a next_block call begun after stop_files returned never returns a
\* block holding samples of a file accepted before that stop.
C6_NothingOldAfterStop ==
  (pc["consumer"] = "process" /\ c_block # NoBlock) => c_src > c_mark

\* a step of the control thread inside stop_files
StopStep ==
  /\ k_op' = "stop_files"
  /\ pc'["control"] # pc["control"]

\* the step by which stop_files returns
StopReturn ==
  /\ pc["control"] = "drain"
  /\ pc'["control"] = "idle"

\* what stop_files leaves behind
Stopped == playlist = << >> /\ ~playing_file /\ size = 0

AppendStep ==
  /\ k_op' = "append_file"
  /\ pc'["control"] # pc["control"] \/ appends_left' # appends_left

\* C8: append_file returns true and appends the path at the playlist's tail
\* when the path exists, returns false and leaves the playlist alone when it
\* does not, and never touches the ring buffer, the open file or the flag.
C8_AppendFile ==
  [][ AppendStep =>
        /\ UNCHANGED << ringVars, fileVars >>
        /\ k_ret' # "pending" => ((k_ret' = "true") <=> Exists(k_arg'))
        /\ IF k_ret' = "true"
             THEN /\ Len(playlist') = Len(playlist) + 1
                  /\ SubSeq(playlist', 1, Len(playlist)) = playlist
                  /\ playlist'[Len(playlist')].path = k_arg'
             ELSE playlist' = playlist
    ]_vars

\* C8 witness: an existing file was accepted, then a missing one refused,
\* and the playlist holds one entry.
C8_Witness ==
  /\ k_op = "append_file"
  /\ k_prev = "append_file"
  /\ k_arg = "missing.wav"
  /\ k_ret = "false"
  /\ tickets = 1
  /\ Len(playlist) = 1

\* C9: every playlist access is made holding the mutex, at most one thread
\* holds the mutex, and the consumer neither holds it nor accesses the
\* playlist.
C9_PlaylistUnderMutex ==
  /\ ~pl_unlocked
  /\ Cardinality(playlist_mutex) <= 1
  /\ "consumer" \notin pl_users
  /\ "consumer" \notin playlist_mutex

\* C9 witness: the control thread and the producer have both accessed the
\* playlist, and the producer holds the mutex while the control thread is
\* inside a call.
C9_Witness ==
  /\ pl_users = {"producer", "control"}
  /\ playlist_mutex = {"producer"}
  /\ appends_left < MaxAppends

\* C10: check_files opens files in the order append_file accepted them.
C10_OpenedInAppendOrder ==
  \A i, j \in 1..Len(open_log) : i < j => open_log[i] < open_log[j]

\* C10 witness: two files were queued together and both have been opened.
C10_Witness ==
  /\ Len(open_log) = 2
  /\ stops_left = MaxStops

\* C11: at most one input file is open at any time: a file opened by
\* check_files is closed (on exhaustion or by stop_files) before the next one
\* is opened.
C11_OneFileOpen == Cardinality(open_files) <= 1

\* the step by which the garbage collection's pop_front moves _start
GcPopStep ==
  /\ pc["producer"] = "gc_start"
  /\ pc'["producer"] = "gc_size"

\* C12: every slot the producer's garbage collection removes is the logical
\* head at the time it is removed and is tagged Garbage then: the collection
\* never removes a Ready or Playing slot, nor a slot behind the head.
C12_GcRemovesGarbageHead ==
  [][ GcPopStep =>
        /\ data[start + 1].status = Garbage
        /\ start' = (start + 1) % Len(data)
    ]_vars

\* C13: next_block never holds the playlist mutex and never makes more scan
\* steps than the ring buffer has slots, whatever the other threads do.
C13_NextBlockBoundedScan ==
  /\ "consumer" \notin playlist_mutex
  /\ c_i <= Len(data)

\* the step by which the callback returns
CallbackReturn ==
  /\ pc["consumer"] = "process"
  /\ pc'["consumer"] = "next_block"

\* C14: the block a callback obtained from next_block is tagged Garbage when
\* that callback returns, whether process() succeeded or failed, and no
\* block is tagged Playing between two callbacks.
C14_DemotedBeforeReturn ==
  /\ [] ( pc["consumer"] = "next_block" =>
            \A k \in 1..Len(data) : data[k].status # Playing )
  /\ [][ (CallbackReturn /\ c_block # NoBlock) =>
            data'[c_block + 1].status = Garbage ]_vars

\* C14 witness: a callback whose process() failed has returned, having
\* demoted the block it held.
C14_Witness ==
  /\ pc["consumer"] = "next_block"
  /\ c_ret = EXIT_FAILURE
  /\ tag_log = TagStep("consumer", Playing, Garbage)

\* the ring buffer is full of unclaimed Ready blocks while a file is playing
Overrun ==
  /\ playing_file
  /\ size = Len(data)
  /\ \A k \in 1..Len(data) : data[k].status = ReadyToPlay

\* a step of the producer in read_buffers, at the test of the garbage
\* collection or at the test of the reading loop
ReadBuffersTest ==
  /\ pc["producer"] \in {"gc", "rb_while"}
  /\ pc'["producer"] # pc["producer"]

C18_CacheSizeIsCeiling ==
  r_pc \in {"read", "fill", "zero", "done"} =>
    /\ cache_size * sampling_rate >= block_size * file_rate
    /\ (cache_size - 1) * sampling_rate < block_size * file_rate
    /\ Len(file_cache) = cache_size * file_channels

\* C18 witness: a file was opened whose cache size is not a whole quotient
\* and differs from the block size.
C18_Witness ==
  /\ r_pc = "read"
  /\ (block_size * file_rate) % sampling_rate # 0
  /\ cache_size > block_size

\* the number of resampled samples a read of r_cnt frames gives
ResampledCount ==
  LET whole == CHOOSE n \in 0..(r_cnt * sampling_rate) :
                 /\ n * file_rate <= r_cnt * sampling_rate
                 /\ (n + 1) * file_rate > r_cnt * sampling_rate
  IN  IF block_size < whole THEN block_size ELSE whole

\* C19: read_block writes min(block_size, floor(frames_read*output_rate/
\* input_rate)) resampled samples at the start of the block and zero in
\* every sample after them.
C19_CountAndZeroFill ==
  r_pc = "done" =>
    \A i \in 1..Len(r_block) :
      IF i <= ResampledCount
        THEN r_block[i].over = file_channels /\ r_block[i].sum > 0
        ELSE r_block[i] = ZeroSample

\* C19 witness: a short read was resampled into some samples followed by
\* some zeros.
C19_Witness ==
  /\ r_pc = "done"
  /\ r_cnt < cache_size
  /\ ResampledCount > 1
  /\ ResampledCount < block_size
  /\ (r_cnt * sampling_rate) % file_rate # 0

\* the source frame of output sample i (0-based): floor(i*input_rate/output_rate)
SourceFrame(i) == (i * file_rate) \div sampling_rate

\* the sum of the channels of source frame f in the staging buffer
ChannelSum(f) ==
  LET at[c \in 0..file_channels] ==
        IF c = 0 THEN 0 ELSE at[c - 1] + file_cache[f * file_channels + c]
  IN  at[file_channels]

\* C20: output sample i of a resampled block is the mean of the channels of
\* source frame floor(i*input_rate/output_rate).
C20_NearestEarlierFrameMean ==
  r_pc \in {"fill", "zero", "done"} =>
    \A i \in 0..(r_it - 1) :
      i < ResampledCount =>
        r_block[i + 1] = [sum |-> ChannelSum(SourceFrame(i)),
                          over |-> file_channels]

\* the step by which the control thread calls init
InitCall ==
  /\ pc["control"] = "idle"
  /\ k_op' = "init"
  /\ inits_left' # inits_left

InLoop(t) == pc[t] \notin {"unspawned", "entry", "run_set", "returned"}

\* a background thread exists and has not returned from run()
Alive(t) == pc[t] \notin {"unspawned", "returned"}

\* C16: spawn starts a background thread only when none is running, and at
\* most one execution of run() is inside its loop at any time.
C16_OneRunLoop ==
  /\ [] ( Cardinality({t \in Runners : InLoop(t)}) <= 1 )
  /\ [][ \A t \in Runners :
           (pc[t] = "unspawned" /\ pc'[t] = "entry") =>
              \A u \in Runners : ~Alive(u) ]_vars

\* C21: with input_rate = output_rate and one channel, a read of k frames
\* (k <= block_size) gives a block whose first k samples are the k frames
\* read, in order, and whose other samples are exactly zero; a read of
\* block_size frames reproduces the source.
C21_EqualRatesMonoIdentity ==
  (r_pc = "done" /\ file_rate = sampling_rate /\ file_channels = 1) =>
    /\ Len(r_block) = block_size
    /\ r_cnt <= block_size
    /\ \A i \in 1..Len(r_block) :
         r_block[i] = IF i <= r_cnt THEN Sample(file_cache[i], 1)
                                    ELSE ZeroSample

\* C21 witness: at equal rates above one, a one-channel read of more than one
\* frame and fewer than block_size frames has been written to the block.
C21_Witness ==
  /\ r_pc = "done"
  /\ file_rate = sampling_rate
  /\ sampling_rate = MaxRate
  /\ file_channels = 1
  /\ r_cnt > 1
  /\ r_cnt < block_size

\* the step by which the producer's read_block gets a short read from the
\* open file
ShortRead ==
  /\ pc["producer"] = "read_block"
  /\ pc'["producer"] = "rb_tag"
  /\ file_handler # 0
  /\ file_left = 0

\* a step of the producer
ProducerStep == pc'["producer"] # pc["producer"]

\* C22: a read of fewer frames than cache_size is the end of the file, not an
\* error: read_block closes the file, stores nullptr in the handle and clears
\* the playing flag, and still hands out the block; read_buffers then appends
\* no further slot, and the next check_files takes the playlist's next entry.
C22_ShortReadEndsFile ==
  /\ [][ ShortRead =>
           /\ file_handler' = 0
           /\ ~playing_file'
           /\ open_files' = open_files \ {file_handler}
           /\ data' = SetSrc(BackSlot, file_handler)
       ]_vars
  /\ [][ (ProducerStep /\ pc["producer"] \in {"rb_tag", "rb_while"}
             /\ ~playing_file) =>
           /\ pc'["producer"] \in {"rb_while", "run"}
           /\ UNCHANGED << start, end, size >>
       ]_vars
  /\ [][ (ProducerStep /\ pc["producer"] \in {"check_files", "cf_locked"}
             /\ ~playing_file) =>
           IF pc["producer"] = "check_files"
             THEN pc'["producer"] = "cf_locked"
             ELSE playlist # << >> =>
                    /\ p_file'["producer"] = Head(playlist)
                    /\ playlist' = Tail(playlist)
                    /\ pc'["producer"] = "cf_open"
       ]_vars

\* C22 witness: with no stop_files called, the first file was closed by a
\* short read and check_files has opened the playlist's next entry.
C22_Witness ==
  /\ stops_left = MaxStops
  /\ Len(open_log) = 2
  /\ open_files = {2}
  /\ file_handler = 2
  /\ playing_file

\* the step by which the producer's check_files gets the result of sf_open
OpenStep ==
  /\ pc["producer"] = "cf_open"
  /\ pc'["producer"] # "cf_open"

\* the step by which the producer's check_files returns
CheckFilesReturn ==
  /\ pc["producer"] \in {"check_files", "cf_locked"}
  /\ pc'["producer"] = "read_buffers"

\* C23: when the open of the playlist head fails, the entry is gone from the
\* playlist, the playing flag stays false, the ring buffer is untouched and
\* check_files is back at its loop test, from where it takes the next entry;
\* the flag becomes true only by a successful open, and check_files returns
\* with the flag false when it finds the playlist empty.
C23_OpenFailureSkipsEntry ==
  /\ [][ (OpenStep /\ ~Openable(p_file["producer"].path)) =>
           /\ \A i \in 1..Len(playlist') :
                playlist'[i].ticket # p_file["producer"].ticket
           /\ ~playing_file /\ ~playing_file'
           /\ UNCHANGED << data, start, end, size >>
           /\ pc'["producer"] = "check_files"
       ]_vars
  /\ [][ (ProducerStep /\ pc["producer"] = "check_files" /\ ~playing_file) =>
           pc'["producer"] = "cf_locked" ]_vars
  /\ [][ (~playing_file /\ playing_file') =>
           /\ OpenStep
           /\ Openable(p_file["producer"].path)
           /\ file_handler' = p_file["producer"].ticket
       ]_vars
  /\ [][ (CheckFilesReturn /\ pc["producer"] = "cf_locked") =>
           /\ playlist = << >>
           /\ ~playing_file'
       ]_vars

\* C23 witness: the first entry failed to open and, no block having been
\* produced from it, the second entry is open and playing.
C23_Witness ==
  /\ open_log = << 1, 2 >>
  /\ file_handler = 2
  /\ playing_file
  /\ pc["producer"] = "check_files"
  /\ end = 0
  /\ \A k \in 1..Len(data) : data[k].src = 0
  /\ stops_left = MaxStops

\* the step by which allocate is called
AllocateStep == allocs' # allocs

\* C24: after allocate(n, v) on a ring buffer in any state, size, start and
\* end are 0, the capacity is n and every slot equals the fill value v.
C24_AllocateResets ==
  [][ AllocateStep =>
        /\ size' = 0 /\ start' = 0 /\ end' = 0
        /\ Len(data') = allocs'[Len(allocs')]
        /\ \A k \in 1..Len(data') : data'[k] = file_block
    ]_vars

\* C25: run() leaves its loop only when the running flag is false, and once
\* the destructor has cleared the flag (and waits in join) the loop exits and
\* the join returns, under fair scheduling.
C25_LoopStopsOnTeardown ==
  /\ [][ \A t \in Runners :
           (InLoop(t) /\ pc'[t] = "returned") => ~running ]_vars
  /\ (pc["control"] = "join" ~> pc["control"] = "destroyed")

\* the file of ticket n is queued and can be opened
Queued(n) ==
  \E i \in 1..Len(playlist) :
    playlist[i].ticket = n /\ Openable(playlist[i].path)

\* the file of ticket n was opened and read to its end
Played(n) ==
  /\ \E i \in 1..Len(open_log) : open_log[i] = n
  /\ n \notin open_files

\* C26: with finitely many append_file calls, no stop_files and fair
\* scheduling, every queued file that can be opened is opened and read to its
\* end, one file at a time; every Ready block is claimed; and from some point
\* on next_block returns no block.
C26_PlaylistDrains ==
  /\ \A n \in 1..MaxAppends : Queued(n) ~> Played(n)
  /\ [](Cardinality(open_files) <= 1)
  /\ \A k \in 1..Capacity :
       (data[k].status = ReadyToPlay) ~> (data[k].status = Playing)
  /\ <>[](pc["consumer"] = "process" => c_block = NoBlock)

\* C26 witness: two files were played to their end, every block was claimed
\* and demoted, and next_block has returned no block.
C26_Witness ==
  /\ Len(open_log) = 2
  /\ Played(1) /\ Played(2)
  /\ \E k \in 1..Len(data) : data[k].src = 2
  /\ \A k \in 1..Len(data) : data[k].status = Garbage
  /\ pc["consumer"] = "process"
  /\ c_block = NoBlock
  /\ pc["producer"] = "run"

\* C27: in every non-empty state of the ring buffer reached by push_back and
\* pop_front, front() is the slot of operator[](0) and back() is the slot of
\* operator[](size()-1).
C27_FrontBackAreEnds ==
  size > 0 =>
    /\ FrontSlot = SlotAt(0)
    /\ BackSlot = SlotAt(size - 1)

\* C28: at every push_back read_buffers performs, size() is below the
\* capacity (a wrapped _size is above it), so push_back never takes the path
\* that pops the front of a full buffer.
C28_NeverPushOnFull ==
  /\ pc["producer"] = "push_back" => (size >= 0 /\ size < Len(data))
  /\ pc["producer"] \notin {"push_pop_start", "push_pop_size"}

\* C29: whenever read_block starts, the playing flag is true: its assert
\* never fails, stop_files running concurrently or not.
C29_ReadBlockAssertHolds ==
  /\ [][ (pc["producer"] = "read_block" /\ ProducerStep) =>
           playing_file ]_vars
  /\ [](pc["producer"] # "aborted")

\* the step by which next_block claims a block
ClaimStep ==
  /\ pc["consumer"] = "next_block"
  /\ pc'["consumer"] = "process"
  /\ c_block' # NoBlock

\* C30: the consumer claims blocks in the order the producer made them
\* Ready: when next_block claims a block, no block before it in the ring
\* buffer's logical order is Ready, whatever the producer's garbage
\* collection and push_back do during the scan.
C30_ClaimedInReadyOrder ==
  [][ ClaimStep =>
        \A j \in 0..(Len(data) - 1) :
          (j < size /\ LogicalSlot(j) # c_block' /\ j < c_i) =>
             data[LogicalSlot(j) + 1].status # ReadyToPlay
    ]_vars

\* the slots tagged Playing
PlayingSlots == {k \in 0..(Len(data) - 1) : data[k + 1].status = Playing}

\* C31: in every reachable state at most one slot of the ring buffer's
\* storage is tagged Playing, and it is the slot the callback holds.
C31_AtMostOnePlaying ==
  /\ Cardinality(PlayingSlots) <= 1
  /\ PlayingSlots \subseteq {c_block}

\* C31 witness: after a stop_files call, the callback holds a block tagged
\* Playing while another slot is tagged Ready.
C31_Witness ==
  /\ stops_left < MaxStops
  /\ pc["consumer"] = "process"
  /\ PlayingSlots = {c_block}
  /\ \E k \in 1..Len(data) : data[k].status = ReadyToPlay

\* C32: a read that returns the whole cache_size frames gives block_size
\* output samples: floor(cache_size*output_rate/input_rate) >= block_size,
\* the second loop of read_block has nothing to fill and no sample of the
\* block is a filled-in zero.
C32_FullReadFillsBlock ==
  (r_pc \in {"zero", "done"} /\ r_cnt = cache_size) =>
    /\ (cache_size * sampling_rate) \div file_rate >= block_size
    /\ JackSamples(Len(r_block), r_cnt, sampling_rate, file_rate) = block_size
    /\ r_it = block_size
    /\ \A i \in 1..Len(r_block) : r_block[i] # ZeroSample

\* C32 witness: a whole cache was read and resampled where the cache size is
\* a rounded-up quotient of unequal rates.
C32_Witness ==
  /\ r_pc = "done"
  /\ r_cnt = cache_size
  /\ file_rate # sampling_rate
  /\ (block_size * file_rate) % sampling_rate # 0
  /\ block_size > 1

\* C33: for every output index i below the output sample count, the source
\* frame floor(i*input_rate/output_rate), and the frame read_block takes for
\* it, is below frames_read and so below cache_size: no frame beyond those
\* the current read returned is read.
C33_ReadsOnlyFramesRead ==
  (r_pc = "fill"
     /\ r_it # JackSamples(Len(r_block), r_cnt, sampling_rate, file_rate)) =>
    /\ r_it < ResampledCount
    /\ SourceFrame(r_it) < r_cnt
    /\ F32Trunc(r_fidx) < r_cnt
    /\ r_cnt <= cache_size
    /\ (F32Trunc(r_fidx) + 1) * file_channels <= Len(file_cache)

\* C33 witness: a short read of a file faster than the output was resampled
\* into at least two samples.
C33_Witness ==
  /\ r_pc = "zero"
  /\ r_cnt > 1
  /\ r_cnt < cache_size
  /\ file_rate > sampling_rate
  /\ r_it >= 2
  /\ r_it < block_size

\* a step of the control thread inside init
InitStep ==
  /\ k_op' = "init"
  /\ pc'["control"] # pc["control"] \/ inits_left' # inits_left

\* C34: init never changes the playlist: the files append_file accepted
\* before init are queued in the same order after it, and every one of them
\* that can be opened is played once the background thread is spawned.
C34_InitKeepsPlaylist ==
  /\ [][ InitStep => playlist' = playlist ]_vars
  /\ \A n \in 1..MaxAppends :
       (Queued(n) /\ pc["producer"] # "unspawned") ~> Played(n)

\* C34 witness: two files were appended, init has then run its body and
\* returned with both still queued in order.
C34_Witness ==
  /\ k_prev = "append_file"
  /\ k_op = "init"
  /\ pc["control"] = "idle"
  /\ block_size = MaxBlockSize
  /\ Len(data) = Capacity
  /\ Len(playlist) = 2
  /\ playlist[1].ticket = 1
  /\ playlist[2].ticket = 2

\* the step by which init executes its body
InitBodyStep ==
  /\ pc["control"] = "init_body"
  /\ pc'["control"] = "idle"

\* the step by which the loop of run(), executed by t, tests _running
LoopTest(t) ==
  /\ pc[t] = "run"
  /\ pc'[t] # "run"

\* the step by which check_files, executed by t, takes a playlist entry to
\* open it
TakeStep(t) ==
  /\ pc[t] = "cf_locked"
  /\ pc'[t] = "cf_open"

\* C35: init called while the background thread runs and no file is playing
\* clears the running flag; the loop of run() exits at its next test of the
\* flag, and no playlist entry is taken to be opened while the flag is
\* cleared, that is until run() is entered again.
C35_InitStopsLoop ==
  /\ [][ InitBodyStep => ~running' ]_vars
  /\ [][ \A t \in Runners :
           (LoopTest(t) /\ ~running) => pc'[t] = "returned" ]_vars
  /\ [][ \A t \in Runners : TakeStep(t) => running ]_vars

\* C36: at the end of each read_block call the slot push_back appended, and
\* with it every slot of the ring buffer, is tagged ReadyToPlay; when the
\* read returned 0 frames the block holds block_size samples, all of them
\* zero, the file is closed and no file is playing any more.
C36_PushedSlotTaggedReady ==
  /\ r_pc \in {"read", "fill", "zero", "done"} =>
       /\ size > 0
       /\ BackSlot = SlotAt(size - 1)
  /\ r_pc = "done" =>
       /\ TagOf(BackSlot) = ReadyToPlay
       /\ \A i \in 0..(size - 1) : TagOf(SlotAt(i)) = ReadyToPlay
  /\ (r_pc = "done" /\ r_cnt = 0) =>
       /\ Len(r_block) = block_size
       /\ \A i \in 1..Len(r_block) : r_block[i] = ZeroSample
       /\ ~playing_file
       /\ file_handler = 0
       /\ open_files = {}

\* C36 witness: a read of the whole cache was followed by a read of 0
\* frames (a file whose length is a multiple of cache_size), and the second
\* block has been filled.
C36_Witness ==
  /\ r_pc = "done"
  /\ r_cnt = 0
  /\ size = 2
  /\ block_size > 1
  /\ TagOf(BackSlot) = ReadyToPlay

====
